---- MODULE Spec2Model ----
(***************************************************************************)
(* Ledger, policy and claim-settlement logic of the Nkuna Burial Society   *)
(* application (routes.py, auth.py, models.py, utils.py, config.py).       *)
(*                                                                         *)
(* Money is counted in cents.  The code computes with floats; every amount *)
(* an action may enter is a multiple of R0.40, for which the 2.5% and 1%   *)
(* fees are whole numbers of cents, so no rounding occurs on either side.  *)
(* Dates are day numbers.  A primary key is the row's index in its table;  *)
(* 0 stands for None.                                                      *)
(***************************************************************************)
EXTENDS Integers, Sequences, FiniteSets, TLC

Rand(r) == r * 100

\* ------------------------------------------------------------------ bounds
MaxTxns == 3
MaxPolicies == 1
MaxMembers == 1
MaxClaims == 2
MaxConcurrentTxns == 2
MaxCapRows == 15
MaxAgeRows == 2
MaxPairPolicies == 2
MaxPairRows == 2

\* Account 1 is the administrator init_database creates; account 2 signed up.
Admin == 1
Users == {1, 2}
DepositAmounts ==
    {Rand(5), Rand(10), Rand(1000), Rand(2520), Rand(50000), Rand(60000)}
CoverageAmounts == {Rand(1000), Rand(50000)}
StartDates == {7}
Ages == {18, 19}
PremiumAmounts == {Rand(40), Rand(200)}
Requests == {1, 2}
CapAges == {40}
ReviewStatuses == {"under_review", "rejected"}
ReviewNotes == {"seen"}
ClaimIds == 1 .. MaxClaims
PairDeposits == {Rand(1000)}
PairCoverages == {Rand(1000)}
PairPolicyIds == 1 .. MaxPairPolicies
PairMemberIds == 0 .. MaxPairRows
AgeSamples == {0 - 1, 0, 17, 18, 19, 30, 31, 45, 46, 60, 61, 75, 76, 100}
CapMemberIds == {0, 1, 14}
FeeTypes == {"service_fee", "claim_processing_fee", "funeral_fee"}
NewRules == {[percentage |-> 50, fixed_amount |-> 0, minimum |-> 2000,
             is_active |-> TRUE]}
PolicyIds == 1 .. MaxPolicies
MemberIds == 0 .. MaxMembers

\* ------------------------------------------------------------------ config.py
SERVICE_FEE_PERMILLE == 25
SERVICE_FEE_MIN == Rand(10)
CLAIM_FEE_PERMILLE == 10
CLAIM_FEE_MIN == Rand(50)
LATE_FEE == Rand(50)
REGISTRATION_FEE == Rand(100)
MAX_DEPOSIT_PER_TRANSACTION == Rand(50000)
MAX_BALANCE == Rand(100000)
BILLING_CYCLE_DAYS == 30
MAX_COVERED_MEMBERS == 14

AGE_BANDS(band) ==
    CASE band = "0-18" -> Rand(50)
      [] band = "19-30" -> Rand(100)
      [] band = "31-45" -> Rand(150)
      [] band = "46-60" -> Rand(200)
      [] band = "61-75" -> Rand(250)
      [] OTHER -> Rand(300)

\* ------------------------------------------------------------------ state
VARIABLES
    virtual_balance,        \* users.virtual_balance, per account
    registration_fee_paid,  \* users.registration_fee_paid, per account
    policies,               \* table policies
    covered_members,        \* table covered_members
    claims,                 \* table claims
    transactions,           \* table transactions
    sessions,               \* requests in flight: the user row each has loaded
    admin_fees,             \* table admin_fees, by fee_type
    last                    \* the last request handled and what it answered

vars == <<virtual_balance, registration_fee_paid, policies, covered_members,
          claims, transactions, sessions, admin_fees, last>>

\* The committed database, as one value.
DB ==
    [virtual_balance |-> virtual_balance,
     registration_fee_paid |-> registration_fee_paid,
     policies |-> policies,
     covered_members |-> covered_members,
     claims |-> claims,
     transactions |-> transactions]

\* The users row of account u as a request reads it when it loads current_user.
UserRow(db, u) ==
    [virtual_balance |-> db.virtual_balance[u],
     registration_fee_paid |-> db.registration_fee_paid[u]]

Transaction(tid, u, type, amount, fee, net, policy_id, claim_id) ==
    [transaction_id |-> tid, user_id |-> u, transaction_type |-> type,
     amount |-> amount, service_fee |-> fee, net_amount |-> net,
     policy_id |-> policy_id, claim_id |-> claim_id]

\* ------------------------------------------------------------------ utils.py
\* An identifier is <prefix><timestamp><random suffix>.  The timestamp makes a
\* new identifier differ from the earlier ones unless it is drawn in the same
\* second with the same suffix: the generator yields the next unused number
\* or any identifier of the same prefix that is already stored.
GenerateIds(prefix, used, n) ==
    {<<prefix, n + 1>>} \cup {i \in used : i[1] = prefix}

generate_transaction_id(db, prefix) ==
    GenerateIds(prefix,
                {db.transactions[i].transaction_id : i \in DOMAIN db.transactions},
                Len(db.transactions))

generate_policy_number(db) ==
    GenerateIds("POL", {db.policies[i].policy_number : i \in DOMAIN db.policies},
                Len(db.policies))

generate_claim_number(db) ==
    GenerateIds("CLM", {db.claims[i].claim_number : i \in DOMAIN db.claims},
                Len(db.claims))

\* The boundary ages put in the upper band.
calculate_age_premium_upper(age) ==
    IF age < 18 THEN AGE_BANDS("0-18")
    ELSE IF age < 30 THEN AGE_BANDS("19-30")
    ELSE IF age < 45 THEN AGE_BANDS("31-45")
    ELSE IF age < 60 THEN AGE_BANDS("46-60")
    ELSE IF age < 75 THEN AGE_BANDS("61-75")
    ELSE AGE_BANDS("76+")

calculate_age_premium(age) ==
    IF age <= 18 THEN AGE_BANDS("0-18")
    ELSE IF age <= 30 THEN AGE_BANDS("19-30")
    ELSE IF age <= 45 THEN AGE_BANDS("31-45")
    ELSE IF age <= 60 THEN AGE_BANDS("46-60")
    ELSE IF age <= 75 THEN AGE_BANDS("61-75")
    ELSE AGE_BANDS("76+")

\* ------------------------------------------------------------------ storage
\* The unique constraints of models.py on the rows a session is about to write.
UniqueConstraints(sess) ==
    /\ \A i, j \in DOMAIN sess.transactions :
          sess.transactions[i].transaction_id = sess.transactions[j].transaction_id
              => i = j
    /\ \A i, j \in DOMAIN sess.policies :
          sess.policies[i].policy_number = sess.policies[j].policy_number => i = j
    /\ \A i, j \in DOMAIN sess.claims :
          sess.claims[i].claim_number = sess.claims[j].claim_number => i = j

\* db.session.commit(): the flush of a session that holds changes succeeds
\* when the store accepts it (storageOk) and no unique constraint is broken; a
\* session that holds no change issues no statement and cannot fail.
CommitSucceeds(db, sess, storageOk) ==
    sess = db \/ (storageOk /\ UniqueConstraints(sess))

\* A rollback that leaves the balance the handler had already set.
RollbackKeepsBalance(db, sess) ==
    [db EXCEPT !.virtual_balance = sess.virtual_balance]

\* A rollback that leaves the transactions the handler had already added.
RollbackKeepsTransactions(db, sess) ==
    [db EXCEPT !.transactions = sess.transactions]

\* A rollback that takes the last committed transaction with it.
RollbackDropsCommitted(db, sess) ==
    [db EXCEPT !.transactions = SubSeq(@, 1, Len(@) - 1)]

\* db.session.rollback(): every pending change of the session is dropped.
Rollback(db, sess) == db

\* log_activity: adds the SystemLog row to the session and commits the whole
\* session, pending business rows included (logOk: the row is accepted); on
\* any failure it rolls the whole session back and swallows the exception.
\* The rows of system_logs are written and never read by a handler: of the
\* table the model keeps whether the last request's write failed.
log_activity(db, sess, storageOk, logOk) ==
    IF logOk /\ (storageOk /\ UniqueConstraints(sess))
    THEN sess
    ELSE Rollback(db, sess)

\* What a handler hands back: the committed database after it, the message it
\* flashes, and the failures injected while it ran.
Outcome(db, result, storageFailed, logFailed) ==
    [db |-> db, result |-> result, storageFailed |-> storageFailed,
     logFailed |-> logFailed]

\* ------------------------------------------------------------------ fees
\* The percentage without the minimum.
ServiceFeeNoMinimum(amount) == (amount * SERVICE_FEE_PERMILLE) \div 1000

ServiceFee(amount) ==
    LET service_fee == (amount * SERVICE_FEE_PERMILLE) \div 1000
    IN IF service_fee < SERVICE_FEE_MIN THEN SERVICE_FEE_MIN ELSE service_fee

\* The percentage without the minimum.
ProcessingFeeNoMinimum(claim_amount) ==
    (claim_amount * CLAIM_FEE_PERMILLE) \div 1000

ProcessingFee(claim_amount) ==
    LET processing_fee == (claim_amount * CLAIM_FEE_PERMILLE) \div 1000
    IN IF processing_fee < CLAIM_FEE_MIN THEN CLAIM_FEE_MIN ELSE processing_fee

\* ------------------------------------------------------------------ deposit
\* The form without its lower bound.
DepositFormValidNoMinimum(amount) == amount <= Rand(50000)

DepositFormValid(amount) ==
    amount >= Rand(10) /\ amount <= Rand(50000)

\* The balance limit applied to the amount credited, after the fee.
can_deposit_net(balance, amount) ==
    /\ amount <= MAX_DEPOSIT_PER_TRANSACTION
    /\ balance + (amount - ServiceFee(amount)) <= MAX_BALANCE

can_deposit(balance, amount) ==
    /\ amount <= MAX_DEPOSIT_PER_TRANSACTION
    /\ balance + amount <= MAX_BALANCE

\* cur is the users row the request loaded; the UPDATE the commit issues sets
\* the column to the value computed from that row.
deposit(db, cur, u, amount, tid, storageOk, logOk) ==
    IF ~DepositFormValid(amount)
    THEN Outcome(db, "invalid_form", FALSE, FALSE)
    ELSE IF ~can_deposit(cur.virtual_balance, amount)
    THEN Outcome(db, "limit_exceeded", FALSE, FALSE)
    ELSE
      LET service_fee == ServiceFee(amount)
          net_amount == amount - service_fee
          sess == [db EXCEPT
                     !.virtual_balance[u] = cur.virtual_balance + net_amount,
                     !.transactions = Append(@,
                         Transaction(tid, u, "deposit", amount, service_fee,
                                     net_amount, 0, 0))]
      IN IF CommitSucceeds(db, sess, storageOk)
         THEN Outcome(log_activity(sess, sess, TRUE, logOk), "success",
                      FALSE, ~logOk)
         ELSE Outcome(Rollback(db, sess), "failed", TRUE, FALSE)

\* ------------------------------------------------------------------ pay_registration_fee
\* No balance check.
HasSufficientBalanceAlways(balance, amount) == TRUE

HasSufficientBalance(balance, amount) == ~(balance < amount)

pay_registration_fee(db, cur, u, tid, storageOk, logOk) ==
    IF cur.registration_fee_paid
    THEN Outcome(db, "already_paid", FALSE, FALSE)
    ELSE IF ~HasSufficientBalance(cur.virtual_balance, REGISTRATION_FEE)
    THEN Outcome(db, "insufficient_balance", FALSE, FALSE)
    ELSE
      LET fee_amount == REGISTRATION_FEE
          sess == [db EXCEPT
                     !.virtual_balance[u] = cur.virtual_balance - fee_amount,
                     !.registration_fee_paid[u] = TRUE,
                     !.transactions = Append(@,
                         Transaction(tid, u, "registration_fee", fee_amount, 0,
                                     -fee_amount, 0, 0))]
      IN IF CommitSucceeds(db, sess, storageOk)
         THEN Outcome(log_activity(sess, sess, TRUE, logOk), "success",
                      FALSE, ~logOk)
         ELSE Outcome(Rollback(db, sess), "failed", TRUE, FALSE)

\* ------------------------------------------------------------------ ownership
\* An ownership test that every account passes.
OwnedByAnyone(db, policy_id, u) == TRUE

\* policy.user_id != current_user.id refuses the request.
OwnedBy(db, policy_id, u) == db.policies[policy_id].user_id = u

\* ------------------------------------------------------------------ create_policy
\* A gate that lets every account through.
RegistrationRequiredNever(cur) == FALSE

\* if not current_user.registration_fee_paid: redirect to the fee page.
RegistrationRequired(cur) == ~cur.registration_fee_paid

PolicyFormValid(coverage_amount) ==
    coverage_amount >= Rand(1000) /\ coverage_amount <= Rand(1000000)

create_policy(db, cur, u, coverage_amount, start_date, policy_number, storageOk, logOk) ==
    IF RegistrationRequired(cur)
    THEN Outcome(db, "not_registered", FALSE, FALSE)
    ELSE IF ~PolicyFormValid(coverage_amount)
    THEN Outcome(db, "invalid_form", FALSE, FALSE)
    ELSE
      LET policy == [policy_number |-> policy_number, user_id |-> u,
                     coverage_amount |-> coverage_amount,
                     monthly_premium |-> coverage_amount \div 1000,
                     start_date |-> start_date,
                     next_payment_date |-> start_date + BILLING_CYCLE_DAYS,
                     status |-> "active"]
          sess == [db EXCEPT !.policies = Append(@, policy)]
      IN IF CommitSucceeds(db, sess, storageOk)
         THEN Outcome(log_activity(sess, sess, TRUE, logOk), "success",
                      FALSE, ~logOk)
         ELSE Outcome(Rollback(db, sess), "failed", TRUE, FALSE)

\* ------------------------------------------------------------------ add_member
\* The members in active coverage only.
ActiveMembersOf(db, policy_id) ==
    {m \in DOMAIN db.covered_members :
        /\ db.covered_members[m].policy_id = policy_id
        /\ db.covered_members[m].is_active}

\* policy.covered_members: the ids of the rows of covered_members of a policy.
MembersOf(db, policy_id) ==
    {m \in DOMAIN db.covered_members :
        db.covered_members[m].policy_id = policy_id}

\* len(policy.covered_members) of every policy, as a request reads it.
Counted(db) ==
    [p \in DOMAIN db.policies |-> Cardinality(MembersOf(db, p))]

\* len(policy.covered_members) >= 14
MemberLimitReached(count) == count >= MAX_COVERED_MEMBERS

\* counted is what the handler read before it added the member.
add_member(db, counted, u, policy_id, age, storageOk, logOk) ==
    IF policy_id \notin DOMAIN db.policies \/ policy_id \notin DOMAIN counted
    THEN Outcome(db, "not_found", FALSE, FALSE)
    ELSE IF ~OwnedBy(db, policy_id, u)
    THEN Outcome(db, "forbidden", FALSE, FALSE)
    ELSE IF MemberLimitReached(counted[policy_id])
    THEN Outcome(db, "member_limit", FALSE, FALSE)
    ELSE
      LET member == [policy_id |-> policy_id, age |-> age,
                     monthly_premium |-> calculate_age_premium(age),
                     is_active |-> TRUE, has_claim |-> FALSE]
          sess == [db EXCEPT !.covered_members = Append(@, member)]
      IN IF CommitSucceeds(db, sess, storageOk)
         THEN Outcome(log_activity(sess, sess, TRUE, logOk), "success",
                      FALSE, ~logOk)
         ELSE Outcome(Rollback(db, sess), "failed", TRUE, FALSE)

\* ------------------------------------------------------------------ pay_premium
RECURSIVE SumPremiums(_, _)
SumPremiums(db, ms) ==
    IF ms = {} THEN 0
    ELSE LET m == CHOOSE x \in ms : TRUE
         IN db.covered_members[m].monthly_premium + SumPremiums(db, ms \ {m})

calculate_total_premium(db, policy_id) ==
    db.policies[policy_id].monthly_premium
        + SumPremiums(db, MembersOf(db, policy_id))

PremiumFormValid(amount) == amount >= Rand(1)

\* The service fee taken on top of the amount.
PremiumDebitWithFee(amount, service_fee) == amount + service_fee

\* current_user.virtual_balance -= amount: the fee is recorded, not deducted.
PremiumDebit(amount, service_fee) == amount

\* The date moved a cycle back.
AdvancePaymentDateBackward(date) == date - BILLING_CYCLE_DAYS

\* policy.next_payment_date + timedelta(days=30)
AdvancePaymentDate(date) == date + BILLING_CYCLE_DAYS

pay_premium(db, cur, u, policy_id, amount, tid, storageOk, logOk) ==
    IF policy_id \notin DOMAIN db.policies
    THEN Outcome(db, "not_found", FALSE, FALSE)
    ELSE IF ~OwnedBy(db, policy_id, u)
    THEN Outcome(db, "forbidden", FALSE, FALSE)
    ELSE IF ~PremiumFormValid(amount)
    THEN Outcome(db, "invalid_form", FALSE, FALSE)
    ELSE IF amount < calculate_total_premium(db, policy_id)
    THEN Outcome(db, "below_minimum", FALSE, FALSE)
    ELSE IF ~HasSufficientBalance(cur.virtual_balance, amount)
    THEN Outcome(db, "insufficient_balance", FALSE, FALSE)
    ELSE
      LET service_fee == ServiceFee(amount)
          sess == [db EXCEPT
                     !.virtual_balance[u] =
                         cur.virtual_balance - PremiumDebit(amount, service_fee),
                     !.policies[policy_id].next_payment_date =
                         AdvancePaymentDate(@),
                     !.transactions = Append(@,
                         Transaction(tid, u, "premium_payment", amount,
                                     service_fee, -amount, policy_id, 0))]
      IN IF CommitSucceeds(db, sess, storageOk)
         THEN Outcome(log_activity(sess, sess, TRUE, logOk), "success",
                      FALSE, ~logOk)
         ELSE Outcome(Rollback(db, sess), "failed", TRUE, FALSE)

\* ------------------------------------------------------------------ submit_claim
\* The member looked up without its policy.
MemberAcceptedOfAnyPolicy(db, policy_id, member_id) ==
    member_id \in DOMAIN db.covered_members

\* The member check on the member's coverage instead of its policy.
MemberAcceptedIfActive(db, policy_id, member_id) ==
    /\ member_id \in DOMAIN db.covered_members
    /\ db.covered_members[member_id].is_active

\* The member check with a test that the member has no claim yet.
MemberAcceptedIfUnclaimed(db, policy_id, member_id) ==
    /\ member_id \in DOMAIN db.covered_members
    /\ db.covered_members[member_id].policy_id = policy_id
    /\ ~db.covered_members[member_id].has_claim

\* The member check of the POST: the row exists and is of the policy.
MemberAccepted(db, policy_id, member_id) ==
    /\ member_id \in DOMAIN db.covered_members
    /\ db.covered_members[member_id].policy_id = policy_id

\* The deactivation left out.
DeactivateMemberSkipped(sess, member_id) == sess

\* The claimed member left in active coverage.
DeactivateMemberKeepsActive(sess, member_id) ==
    [sess EXCEPT !.covered_members[member_id].is_active = TRUE]

\* member.is_active = False, on the member the claim names.
DeactivateMember(sess, member_id) ==
    [sess EXCEPT !.covered_members[member_id].is_active = FALSE]

\* The rows the session holds when the try block reaches the deactivation of
\* the member: the claim, the credit, the payout transaction (its claim_id is
\* claim.id, which is None until the claim is flushed) and the member's flags.
SettlementWrites(db, cur, u, policy_id, member_id, claim_number, tid) ==
    LET claim_amount == db.policies[policy_id].coverage_amount
        processing_fee == ProcessingFee(claim_amount)
        net_amount == claim_amount - processing_fee
        claim == [claim_number |-> claim_number, policy_id |-> policy_id,
                  covered_member_id |-> member_id, user_id |-> u,
                  claim_amount |-> claim_amount,
                  processing_fee |-> processing_fee,
                  net_amount |-> net_amount, status |-> "paid",
                  processed_by |-> Admin, processed_at |-> "utcnow",
                  admin_notes |-> ""]
        flagged == IF member_id = 0 THEN db
                   ELSE [db EXCEPT !.covered_members[member_id].has_claim = TRUE]
        paid == [flagged EXCEPT
                   !.claims = Append(@, claim),
                   !.virtual_balance[u] = cur.virtual_balance + net_amount,
                   !.transactions = Append(@,
                       Transaction(tid, u, "claim_payout", claim_amount,
                                   processing_fee, net_amount, 0, 0))]
    IN IF member_id = 0 THEN paid ELSE DeactivateMember(paid, member_id)

\* logOk1 is the member_deactivated entry, written inside the try block before
\* the commit; logOk2 is the claim_submitted_and_paid entry after it.
submit_claim(db, cur, u, policy_id, member_id, claim_number, tid, storageOk, logOk1, logOk2) ==
    IF RegistrationRequired(cur)
    THEN Outcome(db, "not_registered", FALSE, FALSE)
    ELSE IF policy_id \notin DOMAIN db.policies
            \/ ~OwnedBy(db, policy_id, u)
    THEN Outcome(db, "invalid_policy", FALSE, FALSE)
    ELSE IF member_id # 0 /\ ~MemberAccepted(db, policy_id, member_id)
    THEN Outcome(db, "invalid_member", FALSE, FALSE)
    ELSE
      LET sess == SettlementWrites(db, cur, u, policy_id, member_id,
                                   claim_number, tid)
          storeAccepts == storageOk /\ UniqueConstraints(sess)
          \* the member's entry commits the session, or rolls it back
          afterLog == IF member_id # 0
                      THEN log_activity(db, sess, storageOk, logOk1)
                      ELSE db
          \* what db.session.commit() finds in the session after that
          pending == IF member_id # 0 THEN afterLog ELSE sess
      IN IF CommitSucceeds(afterLog, pending, storageOk)
         THEN Outcome(log_activity(pending, pending, TRUE, logOk2), "success",
                      member_id # 0 /\ ~storeAccepts,
                      (member_id # 0 /\ storeAccepts /\ ~logOk1) \/ ~logOk2)
         ELSE Outcome(Rollback(afterLog, pending), "failed", TRUE, FALSE)

\* ------------------------------------------------------------------ review_claim
\* The status of the form written to the claim with the notes.
ReviewWritesStatus(claim, status, admin_notes) ==
    [claim EXCEPT !.admin_notes = admin_notes, !.status = status]

\* claim.admin_notes = form.admin_notes.data: the form's status is not used.
ReviewWrites(claim, status, admin_notes) ==
    [claim EXCEPT !.admin_notes = admin_notes]

review_claim(db, u, claim_id, status, admin_notes, storageOk) ==
    IF u # Admin
    THEN Outcome(db, "forbidden", FALSE, FALSE)
    ELSE IF claim_id \notin DOMAIN db.claims
    THEN Outcome(db, "not_found", FALSE, FALSE)
    ELSE
      LET sess == [db EXCEPT !.claims[claim_id] =
                      ReviewWrites(@, status, admin_notes)]
      IN IF CommitSucceeds(db, sess, storageOk)
         THEN Outcome(sess, "success", FALSE, FALSE)
         ELSE Outcome(Rollback(db, sess), "failed", TRUE, FALSE)

\* ------------------------------------------------------------------ fee rules
AdminFee(percentage, fixed_amount, minimum, is_active) ==
    [percentage |-> percentage, fixed_amount |-> fixed_amount,
     minimum |-> minimum, is_active |-> is_active]

\* The rows init_database creates; percentages in thousandths.
DefaultFees ==
    [fee_type \in {"service_fee", "claim_processing_fee", "late_payment_fee",
                   "registration_fee"} |->
        CASE fee_type = "service_fee" ->
                 AdminFee(SERVICE_FEE_PERMILLE, 0, SERVICE_FEE_MIN, TRUE)
          [] fee_type = "claim_processing_fee" ->
                 AdminFee(CLAIM_FEE_PERMILLE, 0, CLAIM_FEE_MIN, TRUE)
          [] fee_type = "late_payment_fee" -> AdminFee(0, LATE_FEE, 0, TRUE)
          [] OTHER -> AdminFee(0, REGISTRATION_FEE, 0, TRUE)]

calculate_fee(rule, amount) ==
    LET fee == (IF rule.percentage > 0
                THEN (amount * rule.percentage) \div 1000 ELSE 0)
               + rule.fixed_amount
    IN IF rule.minimum > 0 /\ fee < rule.minimum THEN rule.minimum ELSE fee

FeeOutcome(fees, result, storageFailed, logFailed) ==
    [fees |-> fees, result |-> result, storageFailed |-> storageFailed,
     logFailed |-> logFailed]

manage_fees(fees, u, fee_type, rule, storageOk, logOk) ==
    IF u # Admin
    THEN FeeOutcome(fees, "forbidden", FALSE, FALSE)
    ELSE IF fee_type \in DOMAIN fees
    THEN FeeOutcome(fees, "exists", FALSE, FALSE)
    ELSE IF ~storageOk
    THEN FeeOutcome(fees, "failed", TRUE, FALSE)
    ELSE FeeOutcome([t \in DOMAIN fees \cup {fee_type} |->
                        IF t = fee_type THEN rule ELSE fees[t]],
                    "success", FALSE, ~logOk)

\* A toggle that also clears the rate of the rule.
ToggledRuleZeroRate(rule) ==
    [rule EXCEPT !.is_active = ~rule.is_active, !.percentage = 0,
                 !.minimum = 0]

ToggledRule(rule) == [rule EXCEPT !.is_active = ~rule.is_active]

toggle_fee(fees, u, fee_type, storageOk, logOk) ==
    IF u # Admin
    THEN FeeOutcome(fees, "forbidden", FALSE, FALSE)
    ELSE IF fee_type \notin DOMAIN fees
    THEN FeeOutcome(fees, "not_found", FALSE, FALSE)
    ELSE IF ~storageOk
    THEN FeeOutcome(fees, "failed", TRUE, FALSE)
    ELSE FeeOutcome([fees EXCEPT ![fee_type] = ToggledRule(@)],
                    "success", FALSE, ~logOk)

\* ------------------------------------------------------------------ actions
Handled(op, u, amount, policy_id, member_id, out) ==
    /\ virtual_balance' = out.db.virtual_balance
    /\ registration_fee_paid' = out.db.registration_fee_paid
    /\ policies' = out.db.policies
    /\ covered_members' = out.db.covered_members
    /\ claims' = out.db.claims
    /\ transactions' = out.db.transactions
    /\ UNCHANGED admin_fees
    /\ last' = [op |-> op, user |-> u, amount |-> amount,
                policy_id |-> policy_id, member_id |-> member_id,
                result |-> out.result, storageFailed |-> out.storageFailed,
                logFailed |-> out.logFailed]

\* A request handled with the users row cur that it loaded.
DepositOf(u, cur, amounts) ==
    /\ Len(transactions) < MaxTxns
    /\ \E amount \in amounts,
          tid \in generate_transaction_id(DB, "DEP"),
          storageOk \in BOOLEAN, logOk \in BOOLEAN :
          Handled("deposit", u, amount, 0, 0,
                  deposit(DB, cur, u, amount, tid, storageOk, logOk))

DepositWith(u, cur) == DepositOf(u, cur, DepositAmounts)

PayRegistrationFeeWith(u, cur) ==
    /\ Len(transactions) < MaxTxns
    /\ \E tid \in generate_transaction_id(DB, "FEE"),
          storageOk \in BOOLEAN, logOk \in BOOLEAN :
          Handled("pay_registration_fee", u, 0, 0, 0,
                  pay_registration_fee(DB, cur, u, tid, storageOk, logOk))

CreatePolicyUpTo(u, cur, coverages, n) ==
    /\ Len(policies) < n
    /\ \E coverage_amount \in coverages, start_date \in StartDates,
          policy_number \in generate_policy_number(DB),
          storageOk \in BOOLEAN, logOk \in BOOLEAN :
          Handled("create_policy", u, coverage_amount, 0, 0,
                  create_policy(DB, cur, u, coverage_amount, start_date,
                                policy_number, storageOk, logOk))

CreatePolicyWith(u, cur) ==
    CreatePolicyUpTo(u, cur, CoverageAmounts, MaxPolicies)

PayPremiumWith(u, cur) ==
    /\ Len(transactions) < MaxTxns
    /\ \E policy_id \in PolicyIds, amount \in PremiumAmounts,
          tid \in generate_transaction_id(DB, "PREM"),
          storageOk \in BOOLEAN, logOk \in BOOLEAN :
          Handled("pay_premium", u, amount, policy_id, 0,
                  pay_premium(DB, cur, u, policy_id, amount, tid,
                              storageOk, logOk))

SubmitClaimOf(u, cur, policy_ids, member_ids) ==
    /\ Len(transactions) < MaxTxns
    /\ Len(claims) < MaxClaims
    /\ \E policy_id \in policy_ids, member_id \in member_ids,
          claim_number \in generate_claim_number(DB),
          tid \in generate_transaction_id(DB, "PAY"),
          storageOk \in BOOLEAN, logOk1 \in BOOLEAN, logOk2 \in BOOLEAN :
          Handled("submit_claim", u, 0, policy_id, member_id,
                  submit_claim(DB, cur, u, policy_id, member_id,
                               claim_number, tid, storageOk, logOk1, logOk2))

SubmitClaimWith(u, cur) == SubmitClaimOf(u, cur, PolicyIds, MemberIds)

\* add_member with the member count it read, on at most n rows of members.
AddMemberWith(u, counted, policy_ids, ages, n) ==
    /\ Len(covered_members) < n
    /\ \E policy_id \in policy_ids, age \in ages,
          storageOk \in BOOLEAN, logOk \in BOOLEAN :
          Handled("add_member", u, age, policy_id, 0,
                  add_member(DB, counted, u, policy_id, age, storageOk, logOk))

\* ---- requests handled one at a time: each reads the row of current_user
\* ---- as it is committed
Deposit(u) ==
    DepositWith(u, UserRow(DB, u)) /\ UNCHANGED sessions

PayRegistrationFee(u) ==
    PayRegistrationFeeWith(u, UserRow(DB, u)) /\ UNCHANGED sessions

CreatePolicy(u) ==
    CreatePolicyWith(u, UserRow(DB, u)) /\ UNCHANGED sessions

AddMember(u) ==
    /\ AddMemberWith(u, Counted(DB), PolicyIds, Ages, MaxMembers)
    /\ UNCHANGED sessions

PayPremium(u) ==
    PayPremiumWith(u, UserRow(DB, u)) /\ UNCHANGED sessions

SubmitClaim(u) ==
    SubmitClaimWith(u, UserRow(DB, u)) /\ UNCHANGED sessions

ReviewClaim(u) ==
    /\ \E claim_id \in ClaimIds, status \in ReviewStatuses,
          admin_notes \in ReviewNotes, storageOk \in BOOLEAN :
          Handled("review_claim", u, 0, 0, 0,
                  review_claim(DB, u, claim_id, status, admin_notes, storageOk))
    /\ UNCHANGED sessions

\* ---- concurrent requests: each has its own session, which loads the row of
\* ---- current_user when the request starts (load_user) and keeps it until
\* ---- the handler commits; the store takes no lock and checks no version
NoSession == [user |-> 0, row |-> [virtual_balance |-> 0,
                                   registration_fee_paid |-> FALSE]]

BeginRequest(r, u) ==
    /\ sessions[r] = NoSession
    /\ sessions' = [sessions EXCEPT ![r] = [user |-> u, row |-> UserRow(DB, u)]]
    /\ UNCHANGED <<virtual_balance, registration_fee_paid, policies,
                   covered_members, claims, transactions, admin_fees, last>>

EndRequest(r) ==
    /\ sessions[r] # NoSession
    /\ Len(transactions) < MaxConcurrentTxns
    /\ sessions' = [sessions EXCEPT ![r] = NoSession]

DepositRequest(r) ==
    EndRequest(r) /\ DepositWith(sessions[r].user, sessions[r].row)

PayRegistrationFeeRequest(r) ==
    EndRequest(r) /\ PayRegistrationFeeWith(sessions[r].user, sessions[r].row)

CreatePolicyRequest(r) ==
    EndRequest(r) /\ CreatePolicyWith(sessions[r].user, sessions[r].row)

PayPremiumRequest(r) ==
    EndRequest(r) /\ PayPremiumWith(sessions[r].user, sessions[r].row)

SubmitClaimRequest(r) ==
    EndRequest(r) /\ SubmitClaimWith(sessions[r].user, sessions[r].row)

Init ==
    /\ virtual_balance = [u \in Users |-> 0]
    /\ registration_fee_paid = [u \in Users |-> u = Admin]
    /\ policies = <<>>
    /\ covered_members = <<>>
    /\ claims = <<>>
    /\ transactions = <<>>
    /\ sessions = [r \in Requests |-> NoSession]
    /\ admin_fees = DefaultFees
    /\ last = [op |-> "none", user |-> 0, amount |-> 0, policy_id |-> 0,
               member_id |-> 0, result |-> "none", storageFailed |-> FALSE,
               logFailed |-> FALSE]

Next ==
    \/ \E u \in Users : Deposit(u)
    \/ \E u \in Users : PayRegistrationFee(u)
    \/ \E u \in Users : CreatePolicy(u)
    \/ \E u \in Users : AddMember(u)
    \/ \E u \in Users : PayPremium(u)
    \/ \E u \in Users : SubmitClaim(u)
    \/ \E u \in Users : ReviewClaim(u)

Spec == Init /\ [][Next]_vars

NextConcurrent ==
    \/ \E r \in Requests, u \in Users : BeginRequest(r, u)
    \/ \E r \in Requests : DepositRequest(r)
    \/ \E r \in Requests : PayRegistrationFeeRequest(r)
    \/ \E r \in Requests : CreatePolicyRequest(r)
    \/ \E r \in Requests : PayPremiumRequest(r)
    \/ \E r \in Requests : SubmitClaimRequest(r)

SpecConcurrent == Init /\ [][NextConcurrent]_vars

\* ---- two accounts, two policies and their members
DepositPair(u) ==
    DepositOf(u, UserRow(DB, u), PairDeposits) /\ UNCHANGED sessions

CreatePolicyPair(u) ==
    /\ CreatePolicyUpTo(u, UserRow(DB, u), PairCoverages, MaxPairPolicies)
    /\ UNCHANGED sessions

AddMemberPair(u) ==
    /\ AddMemberWith(u, Counted(DB), PairPolicyIds, CapAges, MaxPairRows)
    /\ UNCHANGED sessions

SubmitClaimPair(u) ==
    /\ SubmitClaimOf(u, UserRow(DB, u), PairPolicyIds, PairMemberIds)
    /\ UNCHANGED sessions

NextPolicies ==
    \/ \E u \in Users : DepositPair(u)
    \/ \E u \in Users : PayRegistrationFee(u)
    \/ \E u \in Users : CreatePolicyPair(u)
    \/ \E u \in Users : AddMemberPair(u)
    \/ \E u \in Users : SubmitClaimPair(u)

SpecPolicies == Init /\ [][NextPolicies]_vars

\* ---- members of every age band added to a policy
AddMemberOfAge(u) ==
    /\ AddMemberWith(u, Counted(DB), PolicyIds, AgeSamples, MaxAgeRows)
    /\ UNCHANGED sessions

NextAges ==
    \/ \E u \in Users : CreatePolicy(u)
    \/ \E u \in Users : AddMemberOfAge(u)

SpecAges == Init /\ [][NextAges]_vars

\* ---- one policy filled up to the member limit, requests one at a time
AddMemberToCap(u) ==
    /\ AddMemberWith(u, Counted(DB), PolicyIds, CapAges, MaxCapRows)
    /\ UNCHANGED sessions

SubmitClaimOnCap(u) ==
    /\ SubmitClaimOf(u, UserRow(DB, u), PolicyIds, CapMemberIds)
    /\ UNCHANGED sessions

NextMembers ==
    \/ \E u \in Users : CreatePolicy(u)
    \/ \E u \in Users : AddMemberToCap(u)
    \/ \E u \in Users : SubmitClaimOnCap(u)

SpecMembers == Init /\ [][NextMembers]_vars

\* ---- the same with add_member requests in flight together: each counts the
\* ---- members of the policy when it starts and inserts its row when it
\* ---- commits; nothing locks the policy in between
BeginAddMember(r, u) ==
    /\ sessions[r] = NoSession
    /\ sessions' = [sessions EXCEPT ![r] =
                       [user |-> u, row |-> UserRow(DB, u),
                        counted |-> Counted(DB)]]
    /\ UNCHANGED <<virtual_balance, registration_fee_paid, policies,
                   covered_members, claims, transactions, admin_fees, last>>

AddMemberRequest(r) ==
    /\ EndRequest(r)
    /\ "counted" \in DOMAIN sessions[r]
    /\ AddMemberWith(sessions[r].user, sessions[r].counted, PolicyIds,
                     CapAges, MaxCapRows)

NextMembersConcurrent ==
    \/ \E u \in Users : CreatePolicy(u)
    \/ \E r \in Requests, u \in Users : BeginAddMember(r, u)
    \/ \E r \in Requests : AddMemberRequest(r)

SpecMembersConcurrent == Init /\ [][NextMembersConcurrent]_vars

\* ---- fee rules created and toggled between deposits and settlements
FeeHandled(op, u, out) ==
    /\ admin_fees' = out.fees
    /\ last' = [op |-> op, user |-> u, amount |-> 0, policy_id |-> 0,
                member_id |-> 0, result |-> out.result,
                storageFailed |-> out.storageFailed,
                logFailed |-> out.logFailed]
    /\ UNCHANGED <<virtual_balance, registration_fee_paid, policies,
                   covered_members, claims, transactions, sessions>>

ManageFees(u) ==
    \E fee_type \in FeeTypes, rule \in NewRules, storageOk, logOk \in BOOLEAN :
        FeeHandled("manage_fees", u,
                   manage_fees(admin_fees, u, fee_type, rule, storageOk, logOk))

ToggleFee(u) ==
    \E fee_type \in FeeTypes, storageOk, logOk \in BOOLEAN :
        FeeHandled("toggle_fee", u,
                   toggle_fee(admin_fees, u, fee_type, storageOk, logOk))

NextFees ==
    \/ \E u \in Users : DepositPair(u)
    \/ \E u \in Users : PayRegistrationFee(u)
    \/ \E u \in Users : CreatePolicyPair(u)
    \/ \E u \in Users : SubmitClaimPair(u)
    \/ \E u \in Users : ManageFees(u)
    \/ \E u \in Users : ToggleFee(u)

SpecFees == Init /\ [][NextFees]_vars

\* ---- requests on a store that rejects a commit only for a repeated
\* ---- identifier, with an activity log that never fails
DepositStored(u) ==
    /\ Len(transactions) < MaxTxns
    /\ \E amount \in PairDeposits, tid \in generate_transaction_id(DB, "DEP") :
          Handled("deposit", u, amount, 0, 0,
                  deposit(DB, UserRow(DB, u), u, amount, tid, TRUE, TRUE))
    /\ UNCHANGED sessions

PayRegistrationFeeStored(u) ==
    /\ Len(transactions) < MaxTxns
    /\ \E tid \in generate_transaction_id(DB, "FEE") :
          Handled("pay_registration_fee", u, 0, 0, 0,
                  pay_registration_fee(DB, UserRow(DB, u), u, tid, TRUE, TRUE))
    /\ UNCHANGED sessions

CreatePolicyStored(u) ==
    /\ Len(policies) < MaxPairPolicies
    /\ \E coverage_amount \in PairCoverages, start_date \in StartDates,
          policy_number \in generate_policy_number(DB) :
          Handled("create_policy", u, coverage_amount, 0, 0,
                  create_policy(DB, UserRow(DB, u), u, coverage_amount,
                                start_date, policy_number, TRUE, TRUE))
    /\ UNCHANGED sessions

PayPremiumStored(u) ==
    /\ Len(transactions) < MaxTxns
    /\ \E policy_id \in PairPolicyIds, amount \in PremiumAmounts,
          tid \in generate_transaction_id(DB, "PREM") :
          Handled("pay_premium", u, amount, policy_id, 0,
                  pay_premium(DB, UserRow(DB, u), u, policy_id, amount, tid,
                              TRUE, TRUE))
    /\ UNCHANGED sessions

SubmitClaimStored(u) ==
    /\ Len(transactions) < MaxTxns
    /\ Len(claims) < MaxClaims
    /\ \E policy_id \in PairPolicyIds, member_id \in PairMemberIds,
          claim_number \in generate_claim_number(DB),
          tid \in generate_transaction_id(DB, "PAY") :
          Handled("submit_claim", u, 0, policy_id, member_id,
                  submit_claim(DB, UserRow(DB, u), u, policy_id, member_id,
                               claim_number, tid, TRUE, TRUE, TRUE))
    /\ UNCHANGED sessions

NextIdentifiers ==
    \/ \E u \in Users : DepositStored(u)
    \/ \E u \in Users : PayRegistrationFeeStored(u)
    \/ \E u \in Users : CreatePolicyStored(u)
    \/ \E u \in Users : AddMemberPair(u)
    \/ \E u \in Users : PayPremiumStored(u)
    \/ \E u \in Users : SubmitClaimStored(u)

SpecIdentifiers == Init /\ [][NextIdentifiers]_vars

\* ---- registration fee requests in flight together
PayRegistrationFeeSession(r) ==
    /\ sessions[r] # NoSession
    /\ sessions' = [sessions EXCEPT ![r] = NoSession]
    /\ PayRegistrationFeeWith(sessions[r].user, sessions[r].row)

NextRegistration ==
    \/ \E u \in Users : DepositPair(u)
    \/ \E r \in Requests, u \in Users : BeginRequest(r, u)
    \/ \E r \in Requests : PayRegistrationFeeSession(r)

SpecRegistration == Init /\ [][NextRegistration]_vars

\* ================================================================== claims
RECURSIVE SumNet(_, _, _)
SumNet(txs, u, n) ==
    IF n = 0 THEN 0
    ELSE (IF txs[n].user_id = u THEN txs[n].net_amount ELSE 0)
             + SumNet(txs, u, n - 1)

TypesOf(u) ==
    {transactions[i].transaction_type :
        i \in {j \in DOMAIN transactions : transactions[j].user_id = u}}

Ledger == <<virtual_balance, registration_fee_paid, policies, transactions>>

\* C1: in every committed state each account's balance equals the sum of
\* net_amount over the account's recorded transactions.
LedgerConsistent ==
    \A u \in Users :
        virtual_balance[u] = SumNet(transactions, u, Len(transactions))

\* An account that deposited, paid the registration fee and was paid a claim.
LedgerConsistentWitness ==
    /\ TypesOf(2) = {"deposit", "registration_fee", "claim_payout"}
    /\ virtual_balance[2] > 0

SettlementApplied ==
    LET u == last'.user
        m == last'.member_id
        c == claims'[Len(claims')]
        t == transactions'[Len(transactions')]
    IN /\ Len(claims') = Len(claims) + 1
       /\ Len(transactions') = Len(transactions) + 1
       /\ claims' = Append(claims, c)
       /\ c.user_id = u /\ c.policy_id = last'.policy_id
       /\ c.covered_member_id = m /\ c.status = "paid"
       /\ virtual_balance' = [virtual_balance EXCEPT ![u] = @ + c.net_amount]
       /\ transactions' = Append(transactions, t)
       /\ t.transaction_type = "claim_payout" /\ t.user_id = u
       /\ t.amount = c.claim_amount /\ t.net_amount = c.net_amount
       /\ covered_members' =
              IF m = 0 THEN covered_members
              ELSE [covered_members EXCEPT ![m].has_claim = TRUE,
                                           ![m].is_active = FALSE]

SettlementNotApplied ==
    UNCHANGED <<virtual_balance, registration_fee_paid, policies,
                covered_members, claims, transactions>>

SettlementAllOrNothing ==
    [][last'.op = "submit_claim" =>
          /\ SettlementApplied \/ SettlementNotApplied
          /\ last'.storageFailed => SettlementNotApplied
          /\ last'.result = "failed" => SettlementNotApplied]_vars

\* A settlement on a covered member that met a storage failure.
SettlementAllOrNothingWitness ==
    /\ last.op = "submit_claim" /\ last.member_id # 0
    /\ last.storageFailed
    /\ Len(covered_members) > 0

\* C4: non-replay: a covered member is the subject of at most one claim (a
\* settlement that names a member whose has_claim is set creates nothing).
NonReplay ==
    \A m \in DOMAIN covered_members :
        Cardinality({i \in DOMAIN claims : claims[i].covered_member_id = m}) <= 1

\* C5: when the write of an activity-log entry fails (and storage otherwise
\* accepts every write), the operation that wrote it is reported successful
\* and all its mutations are committed.
EffectsApplied ==
    CASE last'.op \in {"deposit", "pay_registration_fee", "pay_premium"} ->
           Len(transactions') = Len(transactions) + 1
      [] last'.op = "create_policy" -> Len(policies') = Len(policies) + 1
      [] last'.op = "add_member" ->
           Len(covered_members') = Len(covered_members) + 1
      [] last'.op = "submit_claim" ->
           /\ Len(claims') = Len(claims) + 1
           /\ Len(transactions') = Len(transactions) + 1
      [] OTHER -> FALSE

LogFailureDecoupled ==
    [][(last'.logFailed /\ ~last'.storageFailed)
           => (last'.result = "success" /\ EffectsApplied)]_vars

\* C6: an accepted deposit of amount a charges max(2.5% of a, R10), credits
\* a minus that fee and records one deposit transaction with these values;
\* R1000 on a balance of 0 gives a fee of R25 and a balance of R975.
DepositFeeRule ==
    [][(last'.op = "deposit" /\ last'.result = "success") =>
          LET a == last'.amount
              u == last'.user
              pct == (a * 25) \div 1000
              fee == IF pct > Rand(10) THEN pct ELSE Rand(10)
              t == transactions'[Len(transactions')]
          IN /\ virtual_balance'[u] = virtual_balance[u] + a - fee
             /\ Len(transactions') = Len(transactions) + 1
             /\ transactions' = Append(transactions, t)
             /\ t.transaction_type = "deposit" /\ t.user_id = u
             /\ t.amount = a /\ t.service_fee = fee /\ t.net_amount = a - fee
             /\ (a = Rand(1000) /\ virtual_balance[u] = 0)
                    => (fee = Rand(25) /\ virtual_balance'[u] = Rand(975))]_vars

\* The deposit of R1000 on a balance of 0, and one that met the minimum fee.
DepositFeeRuleWitness ==
    /\ last.op = "deposit" /\ last.result = "success"
    /\ last.amount = Rand(1000)
    /\ virtual_balance[last.user] = Rand(975)
    /\ \E i \in DOMAIN transactions :
          transactions[i].service_fee = Rand(10)
              /\ transactions[i].transaction_type = "deposit"

DepositAccepted == last'.result \in {"success", "failed"}

\* C7 as stated: a deposit that passes the form is accepted iff
\* a <= maxPerTransaction and balance + netAmount <= maxBalance.
DepositAcceptedIffNetFits ==
    [][(last'.op = "deposit" /\ last'.result # "invalid_form") =>
          LET a == last'.amount
              b == virtual_balance[last'.user]
              pct == (a * 25) \div 1000
              fee == IF pct > Rand(10) THEN pct ELSE Rand(10)
          IN DepositAccepted
                 <=> (a <= Rand(50000) /\ b + (a - fee) <= Rand(100000))]_vars

\* C7 amended: a deposit is accepted iff R10 <= a <= maxPerTransaction and
\* balance + a <= maxBalance, a being the gross amount before the fee.
DepositAcceptedIffGrossFits ==
    [][last'.op = "deposit" =>
          LET a == last'.amount
              b == virtual_balance[last'.user]
          IN DepositAccepted
                 <=> (Rand(10) <= a /\ a <= Rand(50000)
                        /\ b + a <= Rand(100000))]_vars

\* A deposit refused although the amount credited would have fitted.
DepositAcceptedIffGrossFitsWitness ==
    /\ last.op = "deposit" /\ last.result = "limit_exceeded"
    /\ LET a == last.amount
           b == virtual_balance[last.user]
       IN b + a > Rand(100000) /\ b + (a - (a * 25) \div 1000) <= Rand(100000)

\* C8: a deposit over the per-transaction or balance limit, and a premium or
\* registration-fee payment with balance < amount, leave the balance, the
\* registration flag, the policies and the transactions unchanged.
RejectedAppliesNothing ==
    [][LET u == last'.user
           a == last'.amount
       IN (\/ /\ last'.op = "deposit"
              /\ (a > Rand(50000) \/ virtual_balance[u] + a > Rand(100000))
           \/ /\ last'.op = "pay_premium"
              /\ virtual_balance[u] < a
           \/ /\ last'.op = "pay_registration_fee"
              /\ virtual_balance[u] < Rand(100))
          => UNCHANGED Ledger]_vars

\* A premium payment refused for insufficient balance on an existing policy.
RejectedAppliesNothingWitness ==
    /\ last.op = "pay_premium" /\ last.result = "insufficient_balance"
    /\ virtual_balance[last.user] < last.amount

\* C9: every account's balance is >= 0.
BalanceNonNegative ==
    \A u \in Users : virtual_balance[u] >= 0

\* An account that has been debited, and one whose deposit was all fee.
BalanceNonNegativeWitness ==
    /\ \E i \in DOMAIN transactions :
          /\ transactions[i].net_amount < 0
          /\ virtual_balance[transactions[i].user_id] < Rand(1000)
    /\ \E i \in DOMAIN transactions :
          /\ transactions[i].transaction_type = "deposit"
          /\ transactions[i].net_amount = 0

\* C10: every account's balance is <= the configured maximum balance.
BalanceWithinMaximum ==
    \A u \in Users : virtual_balance[u] <= Rand(100000)

\* C11: an accepted premium payment of amount a lowers the balance by exactly
\* a and records one premium_payment transaction with net_amount = -a, the
\* service fee recorded on it not being deducted as well; an accepted
\* registration-fee payment lowers the balance by exactly the registration
\* fee and records one registration_fee transaction with net_amount = -fee.
OutgoingDebitsExactly ==
    [][(last'.op \in {"pay_premium", "pay_registration_fee"}
          /\ last'.result = "success") =>
          LET u == last'.user
              a == IF last'.op = "pay_premium" THEN last'.amount ELSE Rand(100)
              type == IF last'.op = "pay_premium" THEN "premium_payment"
                      ELSE "registration_fee"
              t == transactions'[Len(transactions')]
          IN /\ virtual_balance[u] >= a
             /\ virtual_balance' = [virtual_balance EXCEPT ![u] = @ - a]
             /\ Len(transactions') = Len(transactions) + 1
             /\ transactions' = Append(transactions, t)
             /\ t.transaction_type = type /\ t.user_id = u
             /\ t.amount = a /\ t.net_amount = 0 - a]_vars

\* A premium payment that carries a service fee, and a registration fee paid.
OutgoingDebitsExactlyWitness ==
    /\ last.op = "pay_premium" /\ last.result = "success"
    /\ transactions[Len(transactions)].service_fee > 0
    /\ \E i \in DOMAIN transactions :
          transactions[i].transaction_type = "registration_fee"

\* C12: when the commit of a deposit, a premium payment or a registration-fee
\* payment fails, the balances, the registration flags, the policies (their
\* next payment dates) and the transactions are as they were before it.
LedgerOperationAtomic ==
    [][(last'.op \in {"deposit", "pay_premium", "pay_registration_fee"}
          /\ (last'.storageFailed \/ last'.result = "failed"))
          => (last'.result = "failed" /\ UNCHANGED Ledger)]_vars

\* A premium payment whose commit failed.
LedgerOperationAtomicWitness ==
    /\ last.op = "pay_premium" /\ last.result = "failed"
    /\ last.storageFailed
    /\ virtual_balance[last.user] >= last.amount

\* C13: a settlement that commits on a policy with coverage amount c creates
\* a claim with claim_amount = c, processing_fee = max(1% of c, R50) and
\* net_amount = c - processing_fee, raises the claimant's balance by exactly
\* net_amount and records a claim_payout transaction with amount = c,
\* service_fee = processing_fee and that net_amount; c = R50,000 gives a fee
\* of R500 and R49,500 credited.
SettlementAmounts ==
    [][(last'.op = "submit_claim" /\ Len(claims') = Len(claims) + 1) =>
          LET u == last'.user
              c == policies[last'.policy_id].coverage_amount
              pct == c \div 100
              fee == IF pct > Rand(50) THEN pct ELSE Rand(50)
              claim == claims'[Len(claims')]
              t == transactions'[Len(transactions')]
          IN /\ last'.result = "success"
             /\ claim.claim_amount = c /\ claim.processing_fee = fee
             /\ claim.net_amount = c - fee
             /\ virtual_balance' = [virtual_balance EXCEPT ![u] = @ + (c - fee)]
             /\ Len(transactions') = Len(transactions) + 1
             /\ transactions' = Append(transactions, t)
             /\ t.transaction_type = "claim_payout" /\ t.user_id = u
             /\ t.amount = c /\ t.service_fee = fee /\ t.net_amount = c - fee
             /\ c = Rand(50000) => (fee = Rand(500) /\ c - fee = Rand(49500))]_vars

\* The settlement of a policy of R50,000 on an account that held nothing.
SettlementAmountsWitness ==
    /\ last.op = "submit_claim" /\ last.result = "success"
    /\ Len(claims) = 1 /\ claims[1].claim_amount = Rand(50000)
    /\ virtual_balance[last.user] = Rand(49500)

\* C15: every covered member with has_claim set has is_active unset; a member
\* is added with is_active set and has_claim unset; and the flags of a member
\* change only in a settlement that names the member.
MemberFlags ==
    [][/\ \A m \in DOMAIN covered_members' :
             covered_members'[m].has_claim => ~covered_members'[m].is_active
       /\ \A m \in DOMAIN covered_members' \ DOMAIN covered_members :
             /\ last'.op = "add_member"
             /\ covered_members'[m].is_active
             /\ ~covered_members'[m].has_claim
       /\ \A m \in DOMAIN covered_members :
             /\ m \in DOMAIN covered_members'
             /\ (covered_members'[m] # covered_members[m]) =>
                   /\ last'.op = "submit_claim" /\ last'.member_id = m
                   /\ covered_members'[m] =
                          [covered_members[m] EXCEPT !.has_claim = TRUE,
                                                     !.is_active = FALSE]]_vars

\* A member that a settlement has claimed and deactivated, and another
\* member that it left in active coverage.
MemberFlagsWitness ==
    /\ last.op = "submit_claim" /\ last.member_id # 0
    /\ last.member_id \in DOMAIN covered_members
    /\ covered_members[last.member_id].has_claim
    /\ ~covered_members[last.member_id].is_active
    /\ Len(claims) > 0
    /\ \E m \in DOMAIN covered_members :
          covered_members[m].is_active /\ ~covered_members[m].has_claim

RowsOf(members, policy_id) ==
    {m \in DOMAIN members : members[m].policy_id = policy_id}

\* C16: in every state, add_member requests in flight together included, a
\* policy has at most 14 covered members.
AtMostFourteenMembers ==
    \A p \in DOMAIN policies : Cardinality(RowsOf(covered_members, p)) <= 14

\* C17: add_member by the owner of a policy that has fewer than 14 covered
\* members, claimed and deactivated ones counted, adds exactly one member to
\* it (unless storage fails, and then none); with 14 covered members it is
\* refused and the members are unchanged.
AddMemberUpToLimit ==
    [][(/\ last'.op = "add_member"
        /\ last'.policy_id \in DOMAIN policies
        /\ policies[last'.policy_id].user_id = last'.user) =>
          LET p == last'.policy_id
              n == Cardinality(RowsOf(covered_members, p))
          IN IF n < 14
             THEN IF last'.storageFailed
                  THEN last'.result = "failed"
                         /\ covered_members' = covered_members
                  ELSE /\ last'.result = "success"
                       /\ Len(covered_members') = Len(covered_members) + 1
                       /\ covered_members' = Append(covered_members,
                              covered_members'[Len(covered_members')])
                       /\ covered_members'[Len(covered_members')].policy_id = p
             ELSE /\ last'.result = "member_limit"
                  /\ covered_members' = covered_members]_vars

\* The fifteenth member refused on a policy one of whose 14 members has been
\* claimed and deactivated.
AddMemberUpToLimitWitness ==
    /\ last.op = "add_member" /\ last.result = "member_limit"
    /\ Cardinality(RowsOf(covered_members, last.policy_id)) = 14
    /\ \E m \in DOMAIN covered_members :
          covered_members[m].has_claim /\ ~covered_members[m].is_active

BandTable ==
    {[band |-> "0-18", from |-> 0 - 1000, to |-> 18, premium |-> Rand(50)],
     [band |-> "19-30", from |-> 19, to |-> 30, premium |-> Rand(100)],
     [band |-> "31-45", from |-> 31, to |-> 45, premium |-> Rand(150)],
     [band |-> "46-60", from |-> 46, to |-> 60, premium |-> Rand(200)],
     [band |-> "61-75", from |-> 61, to |-> 75, premium |-> Rand(250)],
     [band |-> "76+", from |-> 76, to |-> 1000, premium |-> Rand(300)]}

BandsAt(age) == {b \in BandTable : b.from <= age /\ age <= b.to}

\* C18: the premium of a member is that of exactly one of the six age bands,
\* the band that holds the member's age, a boundary age (18, 30, 45, 60, 75)
\* being of the lower band; and the premium is non-decreasing in the age.
AgePremiumBands ==
    /\ \A m \in DOMAIN covered_members :
          LET age == covered_members[m].age
          IN /\ Cardinality(BandsAt(age)) = 1
             /\ \A b \in BandsAt(age) :
                   covered_members[m].monthly_premium = b.premium
             /\ Cardinality({b \in BandTable :
                   b.premium = covered_members[m].monthly_premium}) = 1
    /\ \A m, n \in DOMAIN covered_members :
          covered_members[m].age <= covered_members[n].age
              => covered_members[m].monthly_premium
                     <= covered_members[n].monthly_premium

\* A member of a boundary age and one a year older, in the next band.
AgePremiumBandsWitness ==
    /\ Len(covered_members) = 2
    /\ covered_members[1].age = 45 /\ covered_members[2].age = 46
    /\ covered_members[1].monthly_premium = Rand(150)
    /\ covered_members[2].monthly_premium = Rand(200)

Tables ==
    <<virtual_balance, registration_fee_paid, policies, covered_members,
      claims, transactions>>

\* C14: a settlement request that names a policy that does not exist or is
\* not owned by the requesting account, or a covered member that does not
\* exist or is not of that policy, is rejected: no claim or transaction is
\* created, no balance changes and no member flag changes.
InvalidSettlementRejected ==
    [][(/\ last'.op = "submit_claim"
        /\ LET p == last'.policy_id
               m == last'.member_id
           IN \/ p \notin DOMAIN policies
              \/ policies[p].user_id # last'.user
              \/ m # 0 /\ m \notin DOMAIN covered_members
              \/ m # 0 /\ covered_members[m].policy_id # p)
          => /\ UNCHANGED Tables
             /\ last'.result \in
                    {"not_registered", "invalid_policy", "invalid_member"}]_vars

\* A settlement refused because the member is of the account's other policy.
InvalidSettlementRejectedWitness ==
    /\ last.op = "submit_claim" /\ last.result = "invalid_member"
    /\ last.member_id \in DOMAIN covered_members
    /\ covered_members[last.member_id].policy_id # last.policy_id
    /\ policies[last.policy_id].user_id = last.user

\* C19: a policy's next_payment_date starts at its start date + 30 days and
\* never moves backward: it changes only when a premium payment on the
\* policy commits, and then by exactly 30 days; a refused or rolled-back
\* payment and every other operation leave it unchanged.
NextPaymentDateAdvances ==
    [][/\ \A p \in DOMAIN policies' \ DOMAIN policies :
             /\ last'.op = "create_policy"
             /\ policies'[p].next_payment_date = policies'[p].start_date + 30
       /\ \A p \in DOMAIN policies :
             LET paid == /\ last'.op = "pay_premium"
                         /\ last'.policy_id = p
                         /\ last'.result = "success"
             IN /\ p \in DOMAIN policies'
                /\ policies'[p].next_payment_date
                       >= policies[p].next_payment_date
                /\ paid => /\ policies'[p].next_payment_date
                                 = policies[p].next_payment_date + 30
                           /\ Len(transactions') = Len(transactions) + 1
                /\ ~paid => policies'[p].next_payment_date
                                = policies[p].next_payment_date]_vars

\* A policy paid for twice, its date two cycles after the first.
NextPaymentDateAdvancesWitness ==
    /\ last.op = "pay_premium" /\ last.result = "success"
    /\ policies[last.policy_id].next_payment_date
           = policies[last.policy_id].start_date + 90

\* C20: every claim is created with status paid and a processing time, and
\* no later operation changes its status, claim_amount, processing_fee or
\* net_amount: no claim ever has another status, and a review by the admin
\* changes only the claim's notes.
ClaimPaidAtCreation ==
    [][/\ \A i \in DOMAIN claims' \ DOMAIN claims :
             /\ last'.op = "submit_claim"
             /\ claims'[i].status = "paid"
             /\ claims'[i].processed_at # "None"
       /\ \A i \in DOMAIN claims' : claims'[i].status = "paid"
       /\ \A i \in DOMAIN claims :
             /\ i \in DOMAIN claims'
             /\ claims'[i] =
                    [claims[i] EXCEPT !.admin_notes = claims'[i].admin_notes]
             /\ claims'[i] # claims[i] =>
                    (last'.op = "review_claim" /\ last'.user = Admin)]_vars

\* A claim that the admin has reviewed, with a status in the form.
ClaimPaidAtCreationWitness ==
    /\ last.op = "review_claim" /\ last.result = "success"
    /\ \E i \in DOMAIN claims :
          claims[i].admin_notes = "seen" /\ claims[i].status = "paid"

LedgerTypeOf(op) ==
    CASE op = "deposit" -> "deposit"
      [] op = "pay_registration_fee" -> "registration_fee"
      [] op = "pay_premium" -> "premium_payment"
      [] op = "submit_claim" -> "claim_payout"
      [] OTHER -> "none"

\* C21: the transactions are append-only: no operation changes or removes a
\* recorded transaction; a deposit, a premium payment or a registration-fee
\* payment that succeeds, and a settlement that commits, adds exactly one
\* transaction, of its type; every other operation adds none.
LedgerAppendOnly ==
    [][/\ \A i \in DOMAIN transactions :
             i \in DOMAIN transactions' /\ transactions'[i] = transactions[i]
       /\ Len(transactions') <= Len(transactions) + 1
       /\ (/\ last'.op \in {"deposit", "pay_registration_fee", "pay_premium"}
           /\ last'.result = "success")
             => Len(transactions') = Len(transactions) + 1
       /\ (last'.op = "submit_claim" /\ Len(claims') = Len(claims) + 1)
             => Len(transactions') = Len(transactions) + 1
       /\ Len(transactions') = Len(transactions) + 1
             => /\ last'.result = "success"
                /\ transactions'[Len(transactions')].transaction_type
                       = LedgerTypeOf(last'.op)]_vars

\* Three recorded transactions, and then an operation that is not of the
\* ledger.
LedgerAppendOnlyWitness ==
    /\ Len(transactions) = 3
    /\ last.op \in {"add_member", "review_claim", "create_policy"}
    /\ last.result = "success"

\* C22: every claim_payout transaction refers to a claim, the one that the
\* same settlement created, so that claims and claim_payout transactions
\* correspond one to one.
PayoutLinkedToClaim ==
    LET payouts == {i \in DOMAIN transactions :
                      transactions[i].transaction_type = "claim_payout"}
    IN /\ \A i \in payouts :
             /\ transactions[i].claim_id \in DOMAIN claims
             /\ claims[transactions[i].claim_id].user_id
                    = transactions[i].user_id
             /\ claims[transactions[i].claim_id].net_amount
                    = transactions[i].net_amount
       /\ \A c \in DOMAIN claims :
             Cardinality({i \in payouts : transactions[i].claim_id = c}) = 1

SettlementPaidWithoutAdjudication ==
    [][(/\ last'.op = "submit_claim"
        /\ registration_fee_paid[last'.user]
        /\ last'.policy_id \in DOMAIN policies
        /\ policies[last'.policy_id].user_id = last'.user
        /\ \/ last'.member_id = 0
           \/ /\ last'.member_id \in DOMAIN covered_members
              /\ covered_members[last'.member_id].policy_id = last'.policy_id
        /\ ~last'.storageFailed /\ ~last'.logFailed)
       => /\ last'.result = "success"
          /\ Len(claims') = Len(claims) + 1
          /\ claims'[Len(claims')].status = "paid"
          /\ virtual_balance'[last'.user] =
                 virtual_balance[last'.user] + claims'[Len(claims')].net_amount
      ]_vars

\* Payouts made on a policy no premium was ever paid for.
SettlementPaidWithoutAdjudicationWitness ==
    /\ last.op = "submit_claim" /\ last.result = "success"
    /\ Len(claims) = 2
    /\ \A i \in DOMAIN transactions :
           transactions[i].transaction_type # "premium_payment"
    /\ \E i \in DOMAIN transactions :
           transactions[i].transaction_type = "claim_payout"

\* C25: no two transactions share a transaction id, no two policies a policy
\* number and no two claims a claim number; and an operation whose generated
\* identifier is already in use fails and changes no balance and no record.
IdentifierCollisionFails ==
    [][/\ \A i, j \in DOMAIN transactions' :
              transactions'[i].transaction_id = transactions'[j].transaction_id
                  => i = j
       /\ \A i, j \in DOMAIN policies' :
              policies'[i].policy_number = policies'[j].policy_number => i = j
       /\ \A i, j \in DOMAIN claims' :
              claims'[i].claim_number = claims'[j].claim_number => i = j
       /\ (/\ last'.op \in {"deposit", "pay_registration_fee", "create_policy",
                             "pay_premium", "submit_claim"}
           /\ last'.storageFailed)
           => /\ last'.result = "failed"
              /\ UNCHANGED Tables]_vars

\* C26: the registration flag of an account only goes from false to true,
\* and a member account has exactly one registration_fee transaction when
\* its flag is true and none when it is false, however requests interleave.
RegistrationFeeChargedOnce ==
    [][\A u \in Users \ {Admin} :
          /\ registration_fee_paid[u] => registration_fee_paid'[u]
          /\ Cardinality({i \in DOMAIN transactions' :
                 /\ transactions'[i].user_id = u
                 /\ transactions'[i].transaction_type = "registration_fee"})
             = IF registration_fee_paid'[u] THEN 1 ELSE 0]_vars

\* C27: the owner of every policy and the claimant of every claim has paid
\* the registration fee, and a request of an account that has not paid it
\* creates no policy and no claim.
RegistrationGate ==
    [][/\ \A i \in DOMAIN policies' :
              registration_fee_paid'[policies'[i].user_id]
       /\ \A i \in DOMAIN claims' : registration_fee_paid'[claims'[i].user_id]
       /\ (/\ last'.op \in {"create_policy", "submit_claim"}
           /\ ~registration_fee_paid[last'.user])
           => /\ last'.result = "not_registered"
              /\ UNCHANGED Tables]_vars

RegistrationGateWitness ==
    /\ last.op \in {"create_policy", "submit_claim"}
    /\ last.result = "not_registered"
    /\ ~registration_fee_paid[last.user]
    /\ virtual_balance[last.user] > 0
    /\ Len(policies) = 1 /\ Len(claims) >= 1

\* C28: a request changes no balance of another account, and add_member,
\* pay_premium and submit_claim change no policy of another account, none of
\* its members and not its next payment date.
OnlyOwnAccountAffected ==
    [][last'.op \in {"deposit", "pay_registration_fee", "create_policy",
                     "add_member", "pay_premium", "submit_claim"}
       => /\ \A v \in Users \ {last'.user} :
                /\ virtual_balance'[v] = virtual_balance[v]
                /\ registration_fee_paid'[v] = registration_fee_paid[v]
          /\ \A p \in DOMAIN policies :
                policies[p].user_id # last'.user
                    => /\ policies'[p] = policies[p]
                       /\ RowsOf(covered_members', p) = RowsOf(covered_members, p)
                       /\ \A m \in RowsOf(covered_members, p) :
                              covered_members'[m] = covered_members[m]]_vars

\* An account with a balance asks for a settlement on another account's policy.
OnlyOwnAccountAffectedWitness ==
    /\ last.op = "submit_claim" /\ last.result = "invalid_policy"
    /\ last.policy_id \in DOMAIN policies
    /\ policies[last.policy_id].user_id # last.user
    /\ Len(covered_members) = 1
    /\ virtual_balance[last.user] > 0

\* C29: the claimant of every claim is the owner of the claim's policy, and
\* the covered member of a claim, when it has one, is a member of that policy.
ClaimReferentialIntegrity ==
    \A i \in DOMAIN claims :
        /\ claims[i].policy_id \in DOMAIN policies
        /\ policies[claims[i].policy_id].user_id = claims[i].user_id
        /\ claims[i].covered_member_id # 0
               => /\ claims[i].covered_member_id \in DOMAIN covered_members
                  /\ covered_members[claims[i].covered_member_id].policy_id
                         = claims[i].policy_id

ClaimReferentialIntegrityWitness ==
    /\ Len(policies) = 2 /\ Len(covered_members) = 2
    /\ Len(claims) = 2
    /\ \E i \in DOMAIN claims : claims[i].covered_member_id # 0
    /\ \E i \in DOMAIN claims : claims[i].covered_member_id = 0
    /\ last.op = "submit_claim" /\ last.result = "success"

\* C30: a policy has at most one claim without a covered member, the one on
\* the owner's own life, so that its claims number at most one more than its
\* covered members.
OwnerPaidAtMostOnce ==
    \A p \in DOMAIN policies :
        /\ Cardinality({i \in DOMAIN claims :
               claims[i].policy_id = p /\ claims[i].covered_member_id = 0}) <= 1
        /\ Cardinality({i \in DOMAIN claims : claims[i].policy_id = p})
               <= 1 + Cardinality(RowsOf(covered_members, p))

====
